---- MODULE Spec2Model ----
(***************************************************************************)
(* Model of import-this/lynx, directory powerful/:                         *)
(*   ispowerful.c  int ispowerful(unsigned long int number)                *)
(*   main.c        the command-line front end                              *)
(* ispowerful is modelled statement by statement: one action per loop      *)
(* test / loop body and per if-statement, with the program counter pc      *)
(* naming the statement about to run.  unsigned long arithmetic is kept    *)
(* modulo 2^W.                                                             *)
(***************************************************************************)
EXTENDS Integers, Sequences, FiniteSets, TLC

\* Width in bits of unsigned long int in the model (64 or 32 on real builds).
W == 12

\* Longest command-line argument (in characters) the model enumerates.
MaxArgLen == 5

RECURSIVE Pow(_, _)
Pow(b, e) == IF e = 0 THEN 1 ELSE b * Pow(b, e - 1)

\* unsigned long int: values 0 .. ULONG_MAX, arithmetic modulo ULONG_MAX + 1.
Modulus == Pow(2, W)
ULONG_MAX == Modulus - 1
\* long int (main.c:20), two's complement of the same width.
LONG_MAX == Pow(2, W - 1) - 1
LONG_MIN == -Pow(2, W - 1)

ERANGE == 34
EXIT_SUCCESS == 0
EXIT_FAILURE == 1

VARIABLES
    pc,         \* statement about to be executed
    number,     \* ispowerful's parameter `number` (the residual)
    exponent,   \* local `exponent`
    divisor,    \* local `divisor`
    result,     \* value returned by ispowerful ("none" before the return)
    input,      \* the argument as the caller passed it (never written again)
    tested,     \* history: divisors of the wheel loop in the order of their
                \* first `number % divisor` evaluation
    argc,       \* main's argc
    arg,        \* argv[1] as a sequence of characters (<<>> when absent)
    errno,      \* C errno
    lnumber,    \* main's local `long int number`
    exit,       \* exit status of main ("none" while running)
    stdout      \* what main printed on stdout ("none" when nothing)

vars == <<pc, number, exponent, divisor, result, input, tested,
          argc, arg, errno, lnumber, exit, stdout>>

coreVars == <<number, exponent, divisor, result, input, tested>>
mainVars == <<argc, arg, errno, lnumber, exit, stdout>>

----------------------------------------------------------------------------
(* Expressions of ispowerful.c *)

\* A slip of ispowerful.c:33: 1 is rejected together with 0.
IsInvalid_OneToo(n) == n <= 1

\* ispowerful.c:33   number == 0
IsInvalid(n) == n = 0

\* A slip of the exponent tests: the comparison is made against 0.
Disqualified_Zero(e) == e = 0

\* ispowerful.c:41,49,58,68   exponent == 1
Disqualified(e) == e = 1

\* ispowerful.c:39,47,56,66   ++exponent
Incr(e) == (e + 1) % Modulus

\* ispowerful.c:37,45,54,64   number % d == 0   (d = 2 is written number & 1)
Divides(d, n) == n % d = 0

\* ispowerful.c:38,46,55,65   number /= d       (d = 2 is written number >>= 1)
Quotient(n, d) == n \div d

\* A slip of ispowerful.c:52: the wheel starts after 5.
FirstDivisor_Seven == 5 + 2

\* ispowerful.c:52   divisor = 5
FirstDivisor == 5

\* ispowerful.c:52   divisor * divisor   (unsigned long: modulo 2^W)
Square(d) == (d * d) % Modulus

\* A slip of ispowerful.c:52: the divisor itself is compared, not its square.
LoopCond_NoSquare(d, n) == d <= n

\* ispowerful.c:52   divisor * divisor <= number
LoopCond(d, n) == Square(d) <= n

\* A slip of ispowerful.c:62: the step inside the body is 4 as well.
InnerStep_Plus4(d) == (d + 4) % Modulus

\* ispowerful.c:62   divisor += 2
InnerStep(d) == (d + 2) % Modulus

\* A slip of ispowerful.c:52: the loop steps by 6 although the body has
\* already added 2.
LoopStep_Plus6(d) == (d + 6) % Modulus

\* ispowerful.c:52   divisor += 4
LoopStep(d) == (d + 4) % Modulus

\* A slip of ispowerful.c:71-73: the residual is not looked at.
FinalResult_AlwaysOne(n) == 1

\* ispowerful.c:71-73   if (number == 1) return 1; return 0;
FinalResult(n) == IF n = 1 THEN 1 ELSE 0

----------------------------------------------------------------------------
(* Statements of ispowerful.c *)

\* `return v`
Return(v) ==
    /\ result' = v
    /\ pc' = "done"

\* One evaluation of `while (number % d == 0) { number /= d; ++exponent; }`:
\* either one pass through the body, or the exit to the statement `after`.
\* A zero divisor makes number % divisor undefined (the process traps).
StripStep(d, after) ==
    IF d = 0
    THEN /\ pc' = "trap"
         /\ UNCHANGED <<number, exponent>>
    ELSE IF Divides(d, number)
    THEN /\ number' = Quotient(number, d)
         /\ exponent' = Incr(exponent)
         /\ pc' = pc
    ELSE /\ pc' = after
         /\ UNCHANGED <<number, exponent>>

\* The first evaluation of number % divisor for the current divisor is the
\* one made with exponent = 0 (every successful one increments exponent).
NoteTested ==
    tested' = IF exponent = 0 /\ divisor # 0 THEN Append(tested, divisor) ELSE tested

\* ispowerful.c:33-36
Entry ==
    /\ pc = "entry"
    /\ IF IsInvalid(number)
       THEN /\ Return(-1)
            /\ UNCHANGED exponent
       ELSE /\ exponent' = 0
            /\ pc' = "strip2"
            /\ UNCHANGED result
    /\ UNCHANGED <<number, divisor, input, tested, mainVars>>

\* A slip of ispowerful.c:37: a stray semicolon leaves the loop without a
\* body, `while ((number & 1) == 0) ;`, so an even number is tested again
\* and again with nothing changed.
Strip2_EmptyBody ==
    /\ pc = "strip2"
    /\ IF Divides(2, number)
       THEN UNCHANGED <<pc, number, exponent>>
       ELSE /\ pc' = "check2"
            /\ UNCHANGED <<number, exponent>>
    /\ UNCHANGED <<divisor, result, input, tested, mainVars>>

\* ispowerful.c:37-40
Strip2 ==
    /\ pc = "strip2"
    /\ StripStep(2, "check2")
    /\ UNCHANGED <<divisor, result, input, tested, mainVars>>

\* ispowerful.c:41-44
Check2 ==
    /\ pc = "check2"
    /\ IF Disqualified(exponent)
       THEN /\ Return(0)
            /\ UNCHANGED exponent
       ELSE /\ exponent' = 0
            /\ pc' = "strip3"
            /\ UNCHANGED result
    /\ UNCHANGED <<number, divisor, input, tested, mainVars>>

\* ispowerful.c:45-48
Strip3 ==
    /\ pc = "strip3"
    /\ StripStep(3, "check3")
    /\ UNCHANGED <<divisor, result, input, tested, mainVars>>

\* ispowerful.c:49-52 (the if, then the for statement's initialisation)
Check3 ==
    /\ pc = "check3"
    /\ IF Disqualified(exponent)
       THEN /\ Return(0)
            /\ UNCHANGED divisor
       ELSE /\ divisor' = FirstDivisor
            /\ pc' = "wheel"
            /\ UNCHANGED result
    /\ UNCHANGED <<number, exponent, input, tested, mainVars>>

\* ispowerful.c:52-53 (the for statement's condition, then exponent = 0)
Wheel ==
    /\ pc = "wheel"
    /\ IF LoopCond(divisor, number)
       THEN /\ exponent' = 0
            /\ pc' = "stripA"
       ELSE /\ pc' = "final"
            /\ UNCHANGED exponent
    /\ UNCHANGED <<number, divisor, result, input, tested, mainVars>>

\* ispowerful.c:54-57
StripA ==
    /\ pc = "stripA"
    /\ StripStep(divisor, "checkA")
    /\ NoteTested
    /\ UNCHANGED <<divisor, result, input, mainVars>>

\* ispowerful.c:58-63
CheckA ==
    /\ pc = "checkA"
    /\ IF Disqualified(exponent)
       THEN /\ Return(0)
            /\ UNCHANGED <<divisor, exponent>>
       ELSE /\ divisor' = InnerStep(divisor)
            /\ exponent' = 0
            /\ pc' = "stripB"
            /\ UNCHANGED result
    /\ UNCHANGED <<number, input, tested, mainVars>>

\* ispowerful.c:64-67
StripB ==
    /\ pc = "stripB"
    /\ StripStep(divisor, "checkB")
    /\ NoteTested
    /\ UNCHANGED <<divisor, result, input, mainVars>>

\* ispowerful.c:68-70 (the if, then the for statement's divisor += 4)
CheckB ==
    /\ pc = "checkB"
    /\ IF Disqualified(exponent)
       THEN /\ Return(0)
            /\ UNCHANGED divisor
       ELSE /\ divisor' = LoopStep(divisor)
            /\ pc' = "wheel"
            /\ UNCHANGED result
    /\ UNCHANGED <<number, exponent, input, tested, mainVars>>

\* ispowerful.c:71-73
Final ==
    /\ pc = "final"
    /\ Return(FinalResult(number))
    /\ UNCHANGED <<number, exponent, divisor, input, tested, mainVars>>

----------------------------------------------------------------------------
(* ispowerful called directly (ispowerful.h:26), as test.c does: any         *)
(* unsigned long argument.  exponent and divisor are not yet initialised;    *)
(* both are written before they are first read, so their start value (0      *)
(* here) is never observed.                                                  *)

Init ==
    /\ pc = "entry"
    /\ number \in 0 .. ULONG_MAX
    /\ input = number
    /\ exponent = 0
    /\ divisor = 0
    /\ result = "none"
    /\ tested = <<>>
    /\ argc = 0
    /\ arg = <<>>
    /\ errno = 0
    /\ lnumber = 0
    /\ exit = "none"
    /\ stdout = "none"

Next ==
    \/ Entry
    \/ Strip2
    \/ Check2
    \/ Strip3
    \/ Check3
    \/ Wheel
    \/ StripA
    \/ CheckA
    \/ StripB
    \/ CheckB
    \/ Final

Spec == Init /\ [][Next]_vars

\* A call runs to completion: the single thread of control keeps executing
\* statements.
FairSpec == Spec /\ WF_vars(Next)

----------------------------------------------------------------------------
(* main.c: the command-line front end.  argv[1] is a sequence of characters. *)

\* Characters the enumerated arguments are made of: a sign, decimal digits,
\* a letter that is a hexadecimal digit, the letter of the 0x prefix.
Chars == {"-", "0", "1", "9", "a", "x"}

RECURSIVE StringsOfLen(_)
StringsOfLen(k) ==
    IF k = 0 THEN {<<>>}
    ELSE {Append(s, c) : s \in StringsOfLen(k - 1), c \in Chars}

RECURSIVE StringsUpTo(_)
StringsUpTo(k) == IF k = 0 THEN StringsOfLen(0) ELSE StringsOfLen(k) \cup StringsUpTo(k - 1)

\* strtol: isspace(c)
IsSpace(c) == c = " "

\* strtol: the value of c as a digit (36: not a digit in any base)
DigitVal(c) ==
    CASE c = "0" -> 0
      [] c = "1" -> 1
      [] c = "2" -> 2
      [] c = "3" -> 3
      [] c = "4" -> 4
      [] c = "5" -> 5
      [] c = "6" -> 6
      [] c = "7" -> 7
      [] c = "8" -> 8
      [] c = "9" -> 9
      [] c \in {"a", "A"} -> 10
      [] c \in {"b", "B"} -> 11
      [] c \in {"c", "C"} -> 12
      [] c \in {"d", "D"} -> 13
      [] c \in {"e", "E"} -> 14
      [] c \in {"f", "F"} -> 15
      [] OTHER -> 36

\* strtol: index of the first character at or after i that is not white space
RECURSIVE SkipSpace(_, _)
SkipSpace(s, i) ==
    IF i <= Len(s) /\ IsSpace(s[i]) THEN SkipSpace(s, i + 1) ELSE i

\* strtol: the optional sign
SignAt(s) == SkipSpace(s, 1)
HasSign(s) == SignAt(s) <= Len(s) /\ s[SignAt(s)] \in {"-", "+"}
IsNegative(s) == SignAt(s) <= Len(s) /\ s[SignAt(s)] = "-"
BodyAt(s) == IF HasSign(s) THEN SignAt(s) + 1 ELSE SignAt(s)

\* strtol with base 0: 0x/0X before a hexadecimal digit selects base 16, a
\* leading 0 base 8, anything else base 10.
HexPrefix(s) ==
    /\ BodyAt(s) + 2 <= Len(s)
    /\ s[BodyAt(s)] = "0"
    /\ s[BodyAt(s) + 1] \in {"x", "X"}
    /\ DigitVal(s[BodyAt(s) + 2]) < 16
Base(s) ==
    IF HexPrefix(s) THEN 16
    ELSE IF BodyAt(s) <= Len(s) /\ s[BodyAt(s)] = "0" THEN 8
    ELSE 10
DigitsAt(s) == IF HexPrefix(s) THEN BodyAt(s) + 2 ELSE BodyAt(s)

\* strtol: one past the last digit of the longest run of digits of the base
RECURSIVE DigitsEnd(_, _, _)
DigitsEnd(s, i, base) ==
    IF i <= Len(s) /\ DigitVal(s[i]) < base THEN DigitsEnd(s, i + 1, base) ELSE i

\* strtol: the mathematical value of the digits s[i .. end - 1]
RECURSIVE Accumulate(_, _, _, _, _)
Accumulate(s, i, end, base, acc) ==
    IF i >= end THEN acc
    ELSE Accumulate(s, i + 1, end, base, acc * base + DigitVal(s[i]))

StrtolMagnitude(s) ==
    Accumulate(s, DigitsAt(s), DigitsEnd(s, DigitsAt(s), Base(s)), Base(s), 0)
StrtolExact(s) == IF IsNegative(s) THEN -StrtolMagnitude(s) ELSE StrtolMagnitude(s)

\* strtol: the value is out of the range of long (errno is set to ERANGE)
StrtolOverflows(s) == StrtolExact(s) > LONG_MAX \/ StrtolExact(s) < LONG_MIN

\* strtol: the return value; 0 when no digit was converted, LONG_MAX or
\* LONG_MIN when the value is out of range.
Strtol(s) ==
    IF StrtolExact(s) > LONG_MAX THEN LONG_MAX
    ELSE IF StrtolExact(s) < LONG_MIN THEN LONG_MIN
    ELSE StrtolExact(s)

\* strtol: what *endptr would be (main passes NULL and never sees it): the
\* index one past the converted text, 1 when nothing was converted.
StrtolEnd(s) ==
    IF DigitsEnd(s, DigitsAt(s), Base(s)) = DigitsAt(s)
    THEN 1
    ELSE DigitsEnd(s, DigitsAt(s), Base(s))

\* (unsigned long int) number
ToUnsignedLong(v) == v % Modulus

\* main.c:22-25
MainArgs ==
    /\ pc = "main"
    /\ IF argc # 2
       THEN /\ exit' = EXIT_FAILURE
            /\ pc' = "exited"
       ELSE /\ pc' = "strtol"
            /\ UNCHANGED exit
    /\ UNCHANGED <<coreVars, argc, arg, errno, lnumber, stdout>>

\* main.c:27
MainStrtol ==
    /\ pc = "strtol"
    /\ lnumber' = Strtol(arg)
    /\ errno' = IF StrtolOverflows(arg) THEN ERANGE ELSE errno
    /\ pc' = "range"
    /\ UNCHANGED <<coreVars, argc, arg, exit, stdout>>

\* main.c:28-31
MainRange ==
    /\ pc = "range"
    /\ IF errno = ERANGE
       THEN /\ exit' = EXIT_FAILURE
            /\ pc' = "exited"
       ELSE /\ pc' = "sign"
            /\ UNCHANGED exit
    /\ UNCHANGED <<coreVars, argc, arg, errno, lnumber, stdout>>

\* main.c:32-35
MainSign ==
    /\ pc = "sign"
    /\ IF lnumber < 0
       THEN /\ exit' = EXIT_FAILURE
            /\ pc' = "exited"
       ELSE /\ pc' = "call"
            /\ UNCHANGED exit
    /\ UNCHANGED <<coreVars, argc, arg, errno, lnumber, stdout>>

\* main.c:36 (the call)
MainCall ==
    /\ pc = "call"
    /\ number' = ToUnsignedLong(lnumber)
    /\ input' = ToUnsignedLong(lnumber)
    /\ pc' = "entry"
    /\ UNCHANGED <<exponent, divisor, result, tested, mainVars>>

\* main.c:36-37 (printf of the returned value, return EXIT_SUCCESS)
MainPrint ==
    /\ pc = "done"
    /\ stdout' = result
    /\ exit' = EXIT_SUCCESS
    /\ pc' = "exited"
    /\ UNCHANGED <<coreVars, argc, arg, errno, lnumber>>

\* Program start: errno is 0; argv[1] exists when argc >= 2 and is read only
\* when argc = 2.
CliInit ==
    /\ pc = "main"
    /\ argc \in {1, 2, 3}
    /\ arg \in IF argc = 2 THEN StringsUpTo(MaxArgLen)
               ELSE IF argc = 3 THEN StringsUpTo(1)
               ELSE {<<>>}
    /\ errno = 0
    /\ lnumber = 0
    /\ exit = "none"
    /\ stdout = "none"
    /\ number = 0
    /\ input = 0
    /\ exponent = 0
    /\ divisor = 0
    /\ result = "none"
    /\ tested = <<>>

CliNext ==
    \/ MainArgs
    \/ MainStrtol
    \/ MainRange
    \/ MainSign
    \/ MainCall
    \/ MainPrint
    \/ Next

CliSpec == CliInit /\ [][CliNext]_vars

----------------------------------------------------------------------------
(* Arithmetic the properties are stated in (unbounded integers) *)

IsPrime(p) == p >= 2 /\ \A q \in 2 .. (p - 1) : p % q # 0

\* Exponent of p in the factorization of n (n >= 1, p >= 2).
RECURSIVE Multiplicity(_, _)
Multiplicity(p, n) == IF n % p = 0 THEN 1 + Multiplicity(p, n \div p) ELSE 0

\* Every prime in the factorization of n has exponent >= 2.
AllExponentsAtLeast2(n) ==
    \A p \in 2 .. n : (n % p = 0 /\ IsPrime(p)) => n % (p * p) = 0

IsSquare(m) == \E a \in 1 .. m : a * a = m

\* n = a^2 * b^3 for positive integers a, b.
IsSquareTimesCube(n) ==
    \E b \in 1 .. n :
        /\ b * b <= n
        /\ b * b * b <= n
        /\ n % (b * b * b) = 0
        /\ IsSquare(n \div (b * b * b))

Coprime6(k) == k % 2 # 0 /\ k % 3 # 0

\* The divisor a strip loop or the if after it is about (2 and 3 are
\* literals in the code, the wheel divisors are in `divisor`).
CurrentDivisor ==
    IF pc \in {"strip2", "check2"} THEN 2
    ELSE IF pc \in {"strip3", "check3"} THEN 3
    ELSE divisor

StripPcs == {"strip2", "strip3", "stripA", "stripB"}
CheckPcs == {"check2", "check3", "checkA", "checkB"}

----------------------------------------------------------------------------
\* C1: for every n in 1 .. 2^W - 1, ispowerful(n) returns 1 exactly when every
\* prime in the factorization of n has exponent >= 2, equivalently when
\* n = a^2 * b^3 for positive a, b; otherwise it returns 0.  ispowerful(1) = 1.
C1_DefinitionEquivalence ==
    (pc = "done" /\ input >= 1) =>
        /\ result \in {0, 1}
        /\ (result = 1) <=> AllExponentsAtLeast2(input)
        /\ (result = 1) <=> IsSquareTimesCube(input)
        /\ input = 1 => result = 1

\* A number with the factors 2, 3 and a wheel prime, each more than once, has
\* been accepted (2^2 * 3^3 * 5^2 and the like).
C1_Witness ==
    /\ pc = "done"
    /\ result = 1
    /\ input % 2 = 0
    /\ input % 3 = 0
    /\ input % 5 = 0
    /\ Len(tested) >= 1

\* C2: ispowerful returns -1 exactly for the argument 0; for n >= 1 the result
\* is 0 or 1 and nothing else.
C2_InvalidOnlyZero ==
    pc = "done" =>
        /\ result \in {-1, 0, 1}
        /\ (result = -1) <=> (input = 0)

C2_Witness ==
    /\ pc = "done"
    /\ input = 0
    /\ result = -1

\* C3: for every n in 0 .. 2^W - 1, with divisor * divisor and the increments
\* of divisor taken modulo 2^W, the call reaches a return statement.
C3_Terminates == <>(pc = "done")

\* A call has returned after the wheel loop went on past a wrapped-around
\* square (the last divisor tested has a true square above ULONG_MAX).
C3_Witness ==
    /\ pc = "done"
    /\ Len(tested) >= 1
    /\ tested[Len(tested)] * tested[Len(tested)] > ULONG_MAX

\* The argument is a number: some text was converted and nothing follows it.
IsNumeral(s) == StrtolEnd(s) = Len(s) + 1

\* The caller-level input errors: argument count other than one, non-numeric
\* argument, argument out of the range of long, negative argument.
InputError ==
    \/ argc # 2
    \/ ~IsNumeral(arg)
    \/ StrtolOverflows(arg)
    \/ StrtolExact(arg) < 0

\* C4: every caller-level input error (argument count other than one,
\* non-numeric argument, argument out of the range of long, negative argument)
\* makes main exit with failure status without invoking ispowerful;
\* ispowerful is invoked only for a well-formed non-negative in-range number.
C4_InputErrorsNeverReachCore ==
    /\ pc = "entry" => ~InputError
    /\ (pc = "exited" /\ InputError) =>
          /\ exit = EXIT_FAILURE
          /\ result = "none"

\* C5: the divisors tested by the wheel loop are exactly the integers >= 5
\* coprime to 6 up to the last one tested, in strictly increasing order, each
\* once (also when divisor * divisor equals the residual).
C5_WheelSequence ==
    /\ \A i \in 1 .. Len(tested) - 1 : tested[i] < tested[i + 1]
    /\ Len(tested) >= 1 =>
          {tested[i] : i \in 1 .. Len(tested)} =
              {k \in 5 .. tested[Len(tested)] : Coprime6(k)}

\* The loop was entered on divisor * divisor = residual (n = 11 * 11 and the
\* like), and the divisors after it were tested too.
C5_Witness ==
    /\ Len(tested) >= 4
    /\ \E i \in 3 .. Len(tested) - 1 : tested[i] * tested[i] = input

\* C6 as claimed: at the first remainder test for any wheel divisor d (both
\* the 5, 11, 17, ... and the 7, 13, 19, ... candidates), d * d <= residual.
C6_AsClaimed ==
    (pc \in {"stripA", "stripB"} /\ exponent = 0) => divisor * divisor <= number

\* C6 as amended: at the first remainder test for a 5, 11, 17, ... candidate d
\* the square of d computed modulo 2^W is <= the residual; the 7, 13, 19, ...
\* candidate d + 2 is tested right after d, with no bound check of its own.
C6_LoopHeadBound ==
    /\ (pc = "stripA" /\ exponent = 0) =>
          (divisor * divisor) % Modulus <= number
    /\ (pc = "stripB" /\ exponent = 0) =>
          /\ Len(tested) >= 1
          /\ tested[Len(tested)] = divisor - 2

\* A 7, 13, 19, ... candidate is about to be tested although its square
\* exceeds the residual.
C6_Witness ==
    /\ pc = "stripB"
    /\ exponent = 0
    /\ divisor * divisor > number
    /\ number > 1

\* C7: every evaluation of divisor * divisor in the loop condition is the true
\* square, i.e. the product never exceeds 2^W - 1.
C7_NoSquareOverflow ==
    pc = "wheel" => divisor * divisor <= ULONG_MAX

\* C8: once a divisor has been fully stripped with a counted exponent of
\* exactly 1, the very next step returns 0; the residual is not modified and
\* no further divisor is tested.
C8_ShortCircuit ==
    [][(pc \in CheckPcs /\ exponent = 1) =>
          /\ pc' = "done"
          /\ result' = 0
          /\ number' = number
          /\ divisor' = divisor
          /\ tested' = tested]_vars

\* A wheel divisor with exponent 1 ended the call with larger factors still
\* in the residual.
C8_Witness ==
    /\ pc = "done"
    /\ result = 0
    /\ exponent = 1
    /\ Len(tested) >= 1
    /\ number > divisor

\* C9: for n >= 1, while a divisor d is being tested the residual is >= 1,
\* divides n and has no factor in 2 .. d - 1; a divisor that was found to
\* divide the residual is prime and the exponent counted for it is its
\* exponent in the factorization of n.
C9_ScanInvariant ==
    /\ pc \in StripPcs =>
          /\ number >= 1
          /\ input % number = 0
          /\ \A q \in 2 .. (CurrentDivisor - 1) : number % q # 0
    /\ (pc \in StripPcs \cup CheckPcs /\ exponent >= 1) => IsPrime(CurrentDivisor)
    /\ pc \in CheckPcs => exponent = Multiplicity(CurrentDivisor, input)

\* A wheel prime has been stripped with exponent >= 2 after a composite wheel
\* candidate (25) was passed over.
C9_Witness ==
    /\ pc = "checkA"
    /\ exponent >= 2
    /\ divisor > 25

\* C10: the divisor never wraps around: every increment yields a larger value
\* <= 2^W - 1, and every number % divisor, number / divisor of the wheel loop
\* is made with divisor >= 5.
C10_NoDivisorWrap ==
    [][/\ pc' \in {"stripA", "stripB"} => divisor' >= 5
       /\ pc \in {"checkA", "checkB"} => divisor' >= divisor
       /\ pc' # "trap"]_vars

\* The divisor has been stepped while its square no longer fits the word.
C10_Witness ==
    /\ pc = "stripB"
    /\ divisor * divisor > ULONG_MAX
    /\ divisor > 5

====
